---- MODULE Spec2Model ----
(***************************************************************************)
(* cdb64: a constant key/value database with 64-bit offsets.               *)
(*                                                                         *)
(* The model follows the Go sources: the hash (hash.go), the tuple codec,  *)
(* the Reader (CDB) and the Writer.  A uint64 is kept at its full width as *)
(* four 16-bit limbs <<w0, w1, w2, w3>>, least significant first, so that  *)
(* the hash wraps modulo 2^64 exactly as in the code.  A file is a         *)
(* sequence of bytes; file offset o is position o + 1 of the sequence.     *)
(***************************************************************************)
EXTENDS Integers, Sequences, FiniteSets, TLC

\* ------------------------------------------------------------------------
\* Bounds of the model
\* ------------------------------------------------------------------------

\* number of Put calls that reach the append of an entry
MaxPuts == 2

\* number of Readers handed out by Freeze and New in one behaviour
MaxReaders == 1

\* number of goroutines calling Get on one shared Reader
NumThreads == 2

\* number of Get calls each goroutine makes
MaxLookups == 1

\* the most slots of a subtable of a file that no Writer made
MaxSlots == 2

\* a nil []byte, as opposed to the empty slice << >>: the one sequence that
\* holds no byte
Nil == << -1 >>

\* len(b) and the bytes of b, for a []byte that may be nil
len(b) == IF b = Nil THEN 0 ELSE Len(b)

bytesOf(b) == IF b = Nil THEN <<>> ELSE b

\* keys and values offered to Put and Get
Keys == { <<>>, <<1, 255>>, <<255, 1>> }

Values == { <<>>, <<7>> }

\* the <<key, value>> offered to Put: every key with every value, and calls
\* with a nil key or a nil value
PutArgs ==
    (Keys \X Values) \cup { << Nil, <<7>> >>, << <<>>, Nil >> }

\* ------------------------------------------------------------------------
\* uint64 arithmetic on 16-bit limbs
\* ------------------------------------------------------------------------

\* uint64(n) for a non-negative int64 n below 2^31
U64(n) == << n % 65536, (n \div 65536) % 65536, 0, 0 >>

Zero64 == << 0, 0, 0, 0 >>

\* true when the uint64 fits the model's integers (below 2^30)
Small(u) == u[3] = 0 /\ u[4] = 0 /\ u[2] < 16384

\* int(u), int64(u) of a Small uint64
ToInt(u) == u[1] + 65536 * u[2]

\* (v << 5) + v, modulo 2^64
Mul33(v) ==
    LET p1 == 33 * v[1]
        p2 == 33 * v[2] + (p1 \div 65536)
        p3 == 33 * v[3] + (p2 \div 65536)
        p4 == 33 * v[4] + (p3 \div 65536)
    IN  << p1 % 65536, p2 % 65536, p3 % 65536, p4 % 65536 >>

RECURSIVE XorBits(_, _, _)
\* a XOR b on the low n bits
XorBits(a, b, n) ==
    IF n = 0 THEN 0
    ELSE ((a + b) % 2) + 2 * XorBits(a \div 2, b \div 2, n - 1)

\* v ^ uint64(b) for a byte b
XorByte(v, b) ==
    << (v[1] \div 256) * 256 + XorBits(v[1] % 256, b, 8), v[2], v[3], v[4] >>

\* v + uint64(n), modulo 2^64, for 0 <= n < 2^30
Add64(v, n) ==
    LET s1 == v[1] + n
        s2 == v[2] + (s1 \div 65536)
        s3 == v[3] + (s2 \div 65536)
        s4 == v[4] + (s3 \div 65536)
    IN  << s1 % 65536, s2 % 65536, s3 % 65536, s4 % 65536 >>

\* hash & 0xff
LowByte(h) == h[1] % 256

\* (hash >> 8) % n, for 0 < n < 2^15
Shr8Mod(h, n) ==
    LET r3 == h[4] % n
        r2 == (r3 * 65536 + h[3]) % n
        r1 == (r2 * 65536 + h[2]) % n
    IN  (r1 * 256 + (h[1] \div 256)) % n

\* ------------------------------------------------------------------------
\* hash.go: the default hash, and the hash.Hash64 interface
\* ------------------------------------------------------------------------

start == 5381

RECURSIVE cdbHashWrite(_, _)
\* cdbHash.Write: v = ((v << 5) + v) ^ uint64(b) for each byte of data
cdbHashWrite(v, data) ==
    IF data = <<>> THEN v
    ELSE cdbHashWrite(XorByte(Mul33(v), Head(data)), Tail(data))

RECURSIVE sumHashWrite(_, _)
\* a caller-supplied hash.Hash64 (the hasher argument of NewWriter and New):
\* the sum of the bytes, starting at 0
sumHashWrite(v, data) ==
    IF data = <<>> THEN v
    ELSE sumHashWrite(Add64(v, Head(data)), Tail(data))

RECURSIVE revHashWrite(_, _)
\* another caller-supplied hash.Hash64, passed to New only: the mixing of
\* cdbHash.Write over the bytes of data taken last to first
revHashWrite(v, data) ==
    IF data = <<>> THEN v
    ELSE revHashWrite(XorByte(Mul33(v), data[Len(data)]),
                      SubSeq(data, 1, Len(data) - 1))

\* the hashers a caller passes: nil (the default, "cdb") or its own ("sum")
HashKinds == { "cdb", "sum" }

\* the hashers a caller passes to New: those, or one no Writer was given
ReaderHashKinds == HashKinds \cup { "rev" }

\* Reset()
hashReset(kind) == IF kind = "sum" THEN Zero64 ELSE U64(start)

\* Write(data) on a hasher whose state is v
hashWrite(kind, v, data) ==
    IF kind = "cdb" THEN cdbHashWrite(v, data)
    ELSE IF kind = "sum" THEN sumHashWrite(v, data)
    ELSE revHashWrite(v, data)

\* Reset(); Write(key); Sum64() with nothing in between
Hash(kind, key) == hashWrite(kind, hashReset(kind), bytesOf(key))

\* ------------------------------------------------------------------------
\* the tuple codec
\* ------------------------------------------------------------------------

\* binary.LittleEndian.PutUint64
PutUint64(v) ==
    << v[1] % 256, v[1] \div 256, v[2] % 256, v[2] \div 256,
       v[3] % 256, v[3] \div 256, v[4] % 256, v[4] \div 256 >>

\* binary.LittleEndian.Uint64
Uint64(b) ==
    << b[1] + 256 * b[2], b[3] + 256 * b[4], b[5] + 256 * b[6], b[7] + 256 * b[8] >>

\* ReadAt(buf, off) on a byte source: n bytes at offset off, an error when the
\* source is closed or ends before off + n
ReadAt(f, closed, off, n) ==
    IF closed THEN [err |-> "closed", bytes |-> <<>>]
    ELSE IF n = 0 THEN [err |-> "ok", bytes |-> <<>>]
    ELSE IF ~Small(off) \/ ToInt(off) + n > Len(f) THEN [err |-> "EOF", bytes |-> <<>>]
    ELSE [err |-> "ok", bytes |-> SubSeq(f, ToInt(off) + 1, ToInt(off) + n)]

\* readTuple
readTuple(f, closed, offset) ==
    LET r == ReadAt(f, closed, offset, 16)
    IN  IF r.err # "ok"
        THEN [first |-> Zero64, second |-> Zero64, err |-> r.err]
        ELSE [first |-> Uint64(SubSeq(r.bytes, 1, 8)),
              second |-> Uint64(SubSeq(r.bytes, 9, 16)),
              err |-> "ok"]

\* the 16 bytes writeTuple hands to w.Write
writeTuple(first, second) == PutUint64(first) \o PutUint64(second)

\* ------------------------------------------------------------------------
\* the Reader (CDB)
\* ------------------------------------------------------------------------

headerSize == 256 * 8 * 2

\* the zero value of Header: 256 tables with offset 0 and length 0
ZeroHeader == [i \in 0..255 |-> [offset |-> Zero64, length |-> Zero64]]

\* CDB.readHeader: decode the 256 descriptors at bytes [0, headerSize)
readHeader(f, closed) ==
    LET r == ReadAt(f, closed, Zero64, headerSize)
    IN  IF r.err # "ok" THEN [err |-> r.err, header |-> ZeroHeader]
        ELSE [err |-> "ok",
              header |-> [i \in 0..255 |->
                  [offset |-> Uint64(SubSeq(r.bytes, 16 * i + 1, 16 * i + 8)),
                   length |-> Uint64(SubSeq(r.bytes, 16 * i + 9, 16 * i + 16))]]]

\* getValueAt without the comparison of the record's key bytes (lines 156-159):
\* a record whose key has the length of expectedKey is taken for its record
getValueAtNoCompare(f, closed, offset, expectedKey) ==
    LET t == readTuple(f, closed, offset)
        keyLength == t.first
        valueLength == t.second
    IN  IF t.err # "ok" THEN [value |-> Nil, err |-> t.err]
        ELSE IF keyLength # U64(len(expectedKey)) THEN [value |-> Nil, err |-> "ok"]
        ELSE IF ~Small(valueLength) THEN [value |-> Nil, err |-> "EOF"]
        ELSE LET n == ToInt(keyLength) + ToInt(valueLength)
                 r == ReadAt(f, closed, Add64(offset, 16), n)
             IN  IF r.err # "ok" THEN [value |-> Nil, err |-> r.err]
                 ELSE [value |-> SubSeq(r.bytes, ToInt(keyLength) + 1, n),
                       err |-> "ok"]

\* CDB.getValueAt: the value of the record at offset when its key is
\* expectedKey, nil when it is another key's record
getValueAt(f, closed, offset, expectedKey) ==
    LET t == readTuple(f, closed, offset)
        keyLength == t.first
        valueLength == t.second
    IN  IF t.err # "ok" THEN [value |-> Nil, err |-> t.err]
        ELSE IF keyLength # U64(len(expectedKey)) THEN [value |-> Nil, err |-> "ok"]
        ELSE IF ~Small(valueLength) THEN [value |-> Nil, err |-> "EOF"]
        ELSE LET n == ToInt(keyLength) + ToInt(valueLength)
                 r == ReadAt(f, closed, Add64(offset, 16), n)
             IN  IF r.err # "ok" THEN [value |-> Nil, err |-> r.err]
                 ELSE IF SubSeq(r.bytes, 1, ToInt(keyLength)) # expectedKey
                      THEN [value |-> Nil, err |-> "ok"]
                 ELSE [value |-> SubSeq(r.bytes, ToInt(keyLength) + 1, n),
                       err |-> "ok"]

\* a probe loop without the full-cycle guard
wrappedNever(slot, startingSlot) == FALSE

\* Get, line 104: the probe is back at the slot it started from
wrapped(slot, startingSlot) == slot = startingSlot

\* one iteration of the probe loop of CDB.Get at slot: either the call
\* returns (done) with value and err, or the loop goes on at next
probeSlot(f, closed, table, hash, key, slot, startingSlot) ==
    LET slotOffset == Add64(table.offset, 16 * slot)
        t == readTuple(f, closed, slotOffset)
        slotHash == t.first
        offset == t.second
        g == getValueAt(f, closed, offset, key)
        next == (slot + 1) % ToInt(table.length)
        advance == IF wrapped(next, startingSlot)
                   THEN [done |-> TRUE, value |-> Nil, err |-> "ok", next |-> next]
                   ELSE [done |-> FALSE, value |-> Nil, err |-> "ok", next |-> next]
    IN  IF t.err # "ok"
        THEN [done |-> TRUE, value |-> Nil, err |-> t.err, next |-> slot]
        ELSE IF slotHash = Zero64
        THEN [done |-> TRUE, value |-> Nil, err |-> "ok", next |-> slot]
        ELSE IF slotHash = hash
        THEN IF g.err # "ok"
             THEN [done |-> TRUE, value |-> Nil, err |-> g.err, next |-> slot]
             ELSE IF g.value # Nil
             THEN [done |-> TRUE, value |-> g.value, err |-> "ok", next |-> slot]
             ELSE advance
        ELSE advance

RECURSIVE probe(_, _, _, _, _, _, _)
\* the probe loop of CDB.Get from slot on
probe(f, closed, table, hash, key, slot, startingSlot) ==
    LET p == probeSlot(f, closed, table, hash, key, slot, startingSlot)
    IN  IF p.done THEN [value |-> p.value, err |-> p.err]
        ELSE probe(f, closed, table, hash, key, p.next, startingSlot)

\* CDB.Get after hash := cdb.hasher.Sum64()
lookup(f, closed, header, hash, key) ==
    LET table == header[LowByte(hash)]
    IN  IF table.length = Zero64 THEN [value |-> Nil, err |-> "ok"]
        ELSE LET startingSlot == Shr8Mod(hash, ToInt(table.length))
             IN  probe(f, closed, table, hash, key, startingSlot, startingSlot)

\* CDB.Get when no other call touches the hasher in between
GetSeq(f, closed, header, kind, key) ==
    lookup(f, closed, header, Hash(kind, key), key)

\* ------------------------------------------------------------------------
\* the Writer
\* ------------------------------------------------------------------------

\* the zero value of entry: what make([]entry, tableSize) fills sorted with
ZeroEntry == [hash |-> Zero64, offset |-> Zero64]

\* Write(data) on the sink at its seek position pos <= Len(f): the bytes of
\* f from pos on are overwritten and f grows when the write runs past its end
sinkWrite(f, pos, data) ==
    SubSeq(f, 1, pos) \o data \o SubSeq(f, pos + Len(data) + 1, Len(f))

\* the entry with the offset of the record's key instead of the record's
putEntryKeyOffset(es, kind, key, off) ==
    LET hash == Hash(kind, key)
        table == LowByte(hash)
    IN  [es EXCEPT ![table] = Append(@, [hash |-> hash, offset |-> U64(off + 16)])]

\* the entry with its offset counted from the end of the header
putEntryRelative(es, kind, key, off) ==
    LET hash == Hash(kind, key)
        table == LowByte(hash)
    IN  [es EXCEPT ![table] = Append(@, [hash |-> hash,
                                          offset |-> U64(off - headerSize)])]

\* Put, lines 81-88: the entry appended to entries[hash & 0xff]
putEntry(es, kind, key, off) ==
    LET hash == Hash(kind, key)
        table == LowByte(hash)
    IN  [es EXCEPT ![table] = Append(@, [hash |-> hash, offset |-> U64(off)])]

\* Put, lines 91-104: the bytes handed to the buffered writer
recordBytes(key, value) ==
    writeTuple(U64(len(key)), U64(len(value))) \o bytesOf(key) \o bytesOf(value)

\* Put, lines 78-108 on the Writer's fields w, when no write fails
writerPut(w, kind, key, value) ==
    [entries |-> putEntry(w.entries, kind, key, w.bufferedOffset),
     bufferedWriter |-> w.bufferedWriter \o recordBytes(key, value),
     bufferedOffset |-> w.bufferedOffset + 16 + len(key) + len(value),
     estimatedFooterSize |-> w.estimatedFooterSize + 32]

\* NewWriter, lines 65-70: the fields of a new Writer
newWriter ==
    [entries |-> [i \in 0..255 |-> <<>>],
     bufferedWriter |-> <<>>,
     bufferedOffset |-> headerSize,
     estimatedFooterSize |-> 0]

\* NewWriter, lines 51-56: the sink after Seek(0) and the write of the
\* placeholder header
newSink == [j \in 1..headerSize |-> 0]

\* finalize, line 173: is this slot of sorted free?
slotFree(e) == e.hash = Zero64

RECURSIVE freeSlot(_, _, _)
\* finalize, lines 172-179: the first free slot from slot on
freeSlot(sorted, slot, tableSize) ==
    IF slotFree(sorted[slot]) THEN slot
    ELSE freeSlot(sorted, (slot + 1) % tableSize, tableSize)

RECURSIVE placeEntries(_, _, _)
\* finalize, lines 169-180: the entries placed in insertion order
placeEntries(sorted, tableEntries, tableSize) ==
    IF tableEntries = <<>> THEN sorted
    ELSE LET e == Head(tableEntries)
             slot == freeSlot(sorted, Shr8Mod(e.hash, tableSize), tableSize)
         IN  placeEntries([sorted EXCEPT ![slot] = e], Tail(tableEntries), tableSize)

\* a table of one slot for each entry
tableSizeOfEntries(tableEntries) == Len(tableEntries)

\* finalize, line 161
tableSizeOf(tableEntries) == 2 * Len(tableEntries)

\* finalize, lines 168-180: the slot array of one subtable
sortedSlots(tableEntries) ==
    LET tableSize == tableSizeOf(tableEntries)
    IN  placeEntries([j \in 0..(tableSize - 1) |-> ZeroEntry], tableEntries, tableSize)

RECURSIVE slotBytes(_, _, _)
\* finalize, lines 182-189: writeTuple for each slot of sorted, in order
slotBytes(sorted, j, tableSize) ==
    IF j = tableSize THEN <<>>
    ELSE writeTuple(sorted[j].hash, sorted[j].offset) \o slotBytes(sorted, j + 1, tableSize)

RECURSIVE slotsIn(_, _)
\* the number of slots of the tables whose index is in S
slotsIn(es, S) ==
    IF S = {} THEN 0
    ELSE LET i == CHOOSE j \in S : TRUE
         IN  tableSizeOf(es[i]) + slotsIn(es, S \ {i})

\* the tables that hold an entry
nonEmpty(es) == {j \in 0..255 : es[j] # <<>>}

\* the offset that is not advanced by the slots written (line 188 left out)
offsetAtStart(es, ne, off, i) == off

\* finalize, lines 163-166 and 188: cdb.bufferedOffset when the loop reaches
\* table i, that is off plus 16 bytes for every slot of the tables before i
\* (ne is nonEmpty(es): a table without entries has no slot)
offsetAt(es, ne, off, i) ==
    off + 16 * slotsIn(es, {j \in ne : j < i})

RECURSIVE tablesOut(_, _)
\* finalize, lines 182-189 over the tables of S in index order (a table
\* without entries writes nothing)
tablesOut(es, S) ==
    IF S = {} THEN <<>>
    ELSE LET i == CHOOSE j \in S : \A k \in S : j <= k
         IN  slotBytes(sortedSlots(es[i]), 0, tableSizeOf(es[i]))
                 \o tablesOut(es, S \ {i})

\* finalize, lines 159-190: the loop over the 256 tables; index is the Header,
\* out the bytes written to the buffered writer
writeTables(es, off) ==
    LET ne == nonEmpty(es)
    IN  [index |-> [i \in 0..255 |->
                       [offset |-> U64(offsetAt(es, ne, off, i)),
                        length |-> U64(tableSizeOf(es[i]))]],
         bufferedOffset |-> offsetAt(es, ne, off, 256),
         out |-> tablesOut(es, ne)]

RECURSIVE headerRange(_, _, _)
\* finalize, lines 206-210 for the tables lo..hi of index: 16 bytes each,
\* offset then length
headerRange(index, lo, hi) ==
    IF lo = hi
    THEN PutUint64(index[lo].offset) \o PutUint64(index[lo].length)
    ELSE LET mid == (lo + hi) \div 2
         IN  headerRange(index, lo, mid) \o headerRange(index, mid + 1, hi)

\* finalize, lines 205-210: the header buffer
headerBytes(index) == headerRange(index, 0, 255)

\* the I/O calls of finalize that go to the sink, and so can fail
FailPoints == { "flush", "seek", "write" }

\* Writer.finalize, the writes it makes when no call fails: index (lines
\* 159-166), cdb.bufferedOffset after the loop, the sink after Flush (line
\* 193) and the sink after the header is written at offset 0 (lines 200-212).
\* The buffer holds 65536 bytes, more than any file of the model, so that the
\* buffered writes of Put and of the slots never reach the sink before Flush.
finalizeWrites(es, off, bw, f, pos) ==
    LET t == writeTables(es, off)
        flushed == sinkWrite(f, pos, bw \o t.out)
    IN  [index |-> t.index, bufferedOffset |-> t.bufferedOffset,
         flushed |-> flushed,
         done |-> sinkWrite(flushed, 0, headerBytes(t.index))]

\* Writer.finalize with the sink failing at fail ("none": no failure): what
\* it returns and the sink it leaves, given w == finalizeWrites(...) and the
\* sink f at position pos before the call
finalize(w, f, pos, fail) ==
    IF fail = "flush"
    THEN [index |-> w.index, err |-> "io", bufferedOffset |-> w.bufferedOffset,
          file |-> f, pos |-> pos]
    ELSE IF fail = "seek"
    THEN [index |-> w.index, err |-> "io", bufferedOffset |-> w.bufferedOffset,
          file |-> w.flushed, pos |-> Len(w.flushed)]
    ELSE IF fail = "write"
    THEN [index |-> w.index, err |-> "io", bufferedOffset |-> w.bufferedOffset,
          file |-> w.flushed, pos |-> 0]
    ELSE [index |-> w.index, err |-> "ok", bufferedOffset |-> w.bufferedOffset,
          file |-> w.done, pos |-> headerSize]

\* ------------------------------------------------------------------------
\* the state
\* ------------------------------------------------------------------------

VARIABLES
    hasher,               \* Writer.hasher: the hash the Writer was given
    sinkKind,             \* Writer.writer: "file" (an *os.File: WriteSeeker,
                          \*   Closer and ReaderAt) or "bare" (WriteSeeker only)
    entries,              \* Writer.entries
    bufferedWriter,       \* Writer.bufferedWriter: the buffered bytes, Nil once nil
    bufferedOffset,       \* Writer.bufferedOffset
    estimatedFooterSize,  \* Writer.estimatedFooterSize
    finalizeOnce,         \* Writer.finalizeOnce: TRUE when Do has run
    file,                 \* the bytes of the sink
    pos,                  \* the seek position of the sink
    sinkClosed,           \* the sink's handle has been closed
    readers,              \* the Readers handed out, in order
    ret,                  \* the last call and what it returned
    puts,                 \* history: the <<key, value>> of every Put that returned nil
    finalizeRuns,         \* history: how often the body of finalize started
    finalizeErr,          \* history: what finalize returned ("none": not run)
    hstate,               \* SpecPar: the state of the Reader's shared hasher
    th                    \* SpecPar: the goroutines inside Get

vars == << hasher, sinkKind, entries, bufferedWriter, bufferedOffset,
           estimatedFooterSize, finalizeOnce, file, pos, sinkClosed, readers,
           ret, puts, finalizeRuns, finalizeErr, hstate, th >>

writerVars == << entries, bufferedWriter, bufferedOffset, estimatedFooterSize,
                 finalizeOnce, finalizeRuns, finalizeErr, puts >>

sinkVars == << file, pos, sinkClosed >>

parVars == << hstate, th >>

Result(op, key, value, err, rd) ==
    [op |-> op, key |-> key, value |-> value, err |-> err, rd |-> rd]

\* a goroutine that is not inside Get
Idle == [pc |-> "idle", n |-> 0, key |-> Nil, v |-> Zero64, hash |-> Zero64,
         slot |-> 0, startingSlot |-> 0, reads |-> 0, value |-> Nil, err |-> "ok"]

\* NewWriter: Seek(0), Write(make([]byte, headerSize)), then the Writer
Init ==
    /\ hasher \in HashKinds
    /\ sinkKind \in { "file", "bare" }
    /\ entries = newWriter.entries
    /\ bufferedWriter = newWriter.bufferedWriter
    /\ bufferedOffset = newWriter.bufferedOffset
    /\ estimatedFooterSize = newWriter.estimatedFooterSize
    /\ finalizeOnce = FALSE
    /\ file = newSink
    /\ pos = headerSize
    /\ sinkClosed = FALSE
    /\ readers = <<>>
    /\ ret = Result("NewWriter", Nil, Nil, "ok", 0)
    /\ puts = <<>>
    /\ finalizeRuns = 0
    /\ finalizeErr = "none"
    /\ hstate = Zero64
    /\ th = [t \in 1..NumThreads |-> Idle]

\* ------------------------------------------------------------------------
\* the Writer's operations
\* ------------------------------------------------------------------------

\* the Writer's fields in this state
writerNow ==
    [entries |-> entries, bufferedWriter |-> bufferedWriter,
     bufferedOffset |-> bufferedOffset, estimatedFooterSize |-> estimatedFooterSize]

\* the check of Put with the test of the value left out
nilKeyOnly(key, value) == key = Nil

\* Put, line 75
nilArgument(key, value) == key = Nil \/ value = Nil

\* Writer.Put, called before Close or Freeze: after finalize the
\* bufferedWriter is nil and a Put that gets past line 75 panics in writeTuple.
Put ==
    /\ ~finalizeOnce
    /\ \E a \in PutArgs :
        LET key == a[1]
            value == a[2]
        IN
        IF nilArgument(key, value)
        THEN /\ ret' = Result("Put", key, value, "nil argument", 0)
             /\ UNCHANGED << hasher, sinkKind, writerVars, sinkVars, readers, parVars >>
        ELSE LET w == writerPut(writerNow, hasher, key, value)
             IN
             /\ Len(puts) < MaxPuts
             /\ entries' = w.entries
             /\ bufferedWriter' = w.bufferedWriter
             /\ bufferedOffset' = w.bufferedOffset
             /\ estimatedFooterSize' = w.estimatedFooterSize
             /\ puts' = Append(puts, << key, value >>)
             /\ ret' = Result("Put", key, value, "ok", 0)
             /\ UNCHANGED << hasher, sinkKind, finalizeOnce, finalizeRuns, finalizeErr,
                             sinkVars, readers, parVars >>

\* a Once that forgets it has run
onceDoAlways(done) == TRUE

\* sync.Once.Do: does this call run the function?
onceDo(done) == ~done

\* cdb.finalizeOnce.Do(func() { header, err = cdb.finalize() }): the header
\* and err the closure can leave (the zero Header and nil when it is not run),
\* and the state finalize leaves, one outcome for each way the sink can fail.
\* With a nil bufferedWriter finalize panics.
finalizeOnceDo ==
    IF ~onceDo(finalizeOnce)
    THEN { [ran |-> FALSE, header |-> ZeroHeader, err |-> "ok",
            bufferedOffset |-> bufferedOffset, file |-> file, pos |-> pos] }
    ELSE IF bufferedWriter = Nil
    THEN { [ran |-> TRUE, header |-> ZeroHeader, err |-> "panic",
            bufferedOffset |-> bufferedOffset, file |-> file, pos |-> pos] }
    ELSE LET w == finalizeWrites(entries, bufferedOffset, bufferedWriter, file, pos)
         IN  { LET r == finalize(w, file, pos, fail)
               IN  [ran |-> TRUE, header |-> r.index, err |-> r.err,
                    bufferedOffset |-> r.bufferedOffset, file |-> r.file,
                    pos |-> r.pos] : fail \in FailPoints \cup { "none" } }

\* what the call's finalizeOnce.Do leaves in the Writer and the sink
afterOnce(d) ==
    /\ finalizeOnce' = TRUE
    /\ finalizeRuns' = IF d.ran THEN finalizeRuns + 1 ELSE finalizeRuns
    /\ finalizeErr' = IF d.ran THEN d.err ELSE finalizeErr
    /\ bufferedWriter' = IF d.ran THEN Nil ELSE bufferedWriter
    /\ bufferedOffset' = d.bufferedOffset
    /\ file' = d.file
    /\ pos' = d.pos

\* Writer.Close
Close ==
    \E d \in finalizeOnceDo :
            /\ afterOnce(d)
            /\ IF d.err # "ok"
               THEN /\ ret' = Result("Close", Nil, Nil, d.err, 0)
                    /\ UNCHANGED sinkClosed
               ELSE IF sinkKind = "file"
               THEN /\ sinkClosed' = TRUE
                    /\ ret' = Result("Close", Nil, Nil,
                                     IF sinkClosed THEN "EINVAL" ELSE "ok", 0)
               ELSE /\ ret' = Result("Close", Nil, Nil, "ok", 0)
                    /\ UNCHANGED sinkClosed
            /\ UNCHANGED << hasher, sinkKind, entries, estimatedFooterSize, puts,
                            readers, parVars >>

\* Writer.Freeze
Freeze ==
    /\ Len(readers) < MaxReaders
    /\ \E d \in finalizeOnceDo :
            /\ afterOnce(d)
            /\ IF d.err # "ok"
               THEN /\ ret' = Result("Freeze", Nil, Nil, d.err, 0)
                    /\ UNCHANGED readers
               ELSE IF sinkKind = "file"
               THEN /\ readers' = Append(readers, [src |-> "sink", header |-> d.header,
                                                   hasher |-> hasher, closer |-> TRUE,
                            closed |-> FALSE])
                    /\ ret' = Result("Freeze", Nil, Nil, "ok", Len(readers) + 1)
               ELSE /\ ret' = Result("Freeze", Nil, Nil, "ErrInvalid", 0)
                    /\ UNCHANGED readers
            /\ UNCHANGED << hasher, sinkKind, entries, estimatedFooterSize, puts,
                            sinkClosed, parVars >>

\* ------------------------------------------------------------------------
\* the Reader's operations
\* ------------------------------------------------------------------------

\* is the byte source of Reader rd closed?  A Reader from Freeze reads the
\* Writer's sink, a Reader from New its own handle on the file
sourceClosed(rd) == IF rd.src = "sink" THEN sinkClosed ELSE rd.closed

\* New on a byte source of its own that holds the file the Writer has
\* finalized (an *os.File, a Closer, or a ReaderAt that is no Closer), with
\* the hasher the caller passes
New ==
    \E kind \in ReaderHashKinds, closer \in BOOLEAN :
        LET h == readHeader(file, FALSE)
        IN  /\ finalizeOnce
            /\ Len(readers) < MaxReaders
            /\ IF h.err # "ok"
               THEN /\ ret' = Result("New", Nil, Nil, h.err, 0)
                    /\ UNCHANGED readers
               ELSE /\ readers' = Append(readers, [src |-> "own", header |-> h.header,
                                                   hasher |-> kind, closer |-> closer,
                                                   closed |-> FALSE])
                    /\ ret' = Result("New", Nil, Nil, "ok", Len(readers) + 1)
            /\ UNCHANGED << hasher, sinkKind, writerVars, sinkVars, parVars >>

\* CDB.Get, called when no other Get is running
GetCall ==
    \E i \in 1..Len(readers), key \in Keys :
        LET rd == readers[i]
            g == GetSeq(file, sourceClosed(rd), rd.header, rd.hasher, key)
        IN  /\ ret' = Result("Get", key, g.value, g.err, i)
            /\ UNCHANGED << hasher, sinkKind, writerVars, sinkVars, readers, parVars >>

\* a source that is no Closer is left alone
isCloserNever(rd) == FALSE

\* CDB.Close, line 114: closer, ok := cdb.reader.(io.Closer)
isCloser(rd) == rd.closer

\* CDB.Close: the error of closer.Close() is that of closing a handle that is
\* closed already
ReaderClose ==
    \E i \in 1..Len(readers) :
        LET rd == readers[i]
        IN  /\ IF ~isCloser(rd)
               THEN /\ ret' = Result("ReaderClose", Nil, Nil, "ok", i)
                    /\ UNCHANGED << readers, sinkClosed >>
               ELSE /\ IF rd.src = "sink"
                       THEN /\ sinkClosed' = TRUE
                            /\ UNCHANGED readers
                       ELSE /\ readers' = [readers EXCEPT ![i].closed = TRUE]
                            /\ UNCHANGED sinkClosed
                    /\ ret' = Result("ReaderClose", Nil, Nil,
                                     IF sourceClosed(rd) THEN "EINVAL" ELSE "ok", i)
            /\ UNCHANGED << hasher, sinkKind, writerVars, file, pos, parVars >>

Next == Put \/ Close \/ Freeze \/ GetCall

Spec == Init /\ [][Next]_vars

\* ------------------------------------------------------------------------
\* Get called from several goroutines on one Reader
\* ------------------------------------------------------------------------

\* the records of the database the goroutines read
ParRecords ==
    << << <<>>, <<7>> >>, << <<1, 255>>, <<>> >>, << <<255, 1>>, <<8>> >> >>

RECURSIVE putAll(_, _, _)
\* the Writer after Put of each record of recs
putAll(w, kind, recs) ==
    IF recs = <<>> THEN w
    ELSE putAll(writerPut(w, kind, Head(recs)[1], Head(recs)[2]), kind, Tail(recs))

\* a Writer that was given ParRecords and closed without a failure, and a
\* Reader opened by New on its file with the same hash; no Get has started
InitPar ==
    /\ hasher \in HashKinds
    /\ sinkKind = "file"
    /\ LET w == putAll(newWriter, hasher, ParRecords)
           d == finalizeWrites(w.entries, w.bufferedOffset, w.bufferedWriter,
                               newSink, headerSize)
       IN  /\ entries = w.entries
           /\ bufferedOffset = d.bufferedOffset
           /\ estimatedFooterSize = w.estimatedFooterSize
           /\ file = d.done
           /\ readers = << [src |-> "own", header |-> readHeader(d.done, FALSE).header,
                            hasher |-> hasher, closer |-> TRUE,
                            closed |-> FALSE] >>
    /\ bufferedWriter = Nil
    /\ finalizeOnce = TRUE
    /\ pos = headerSize
    /\ sinkClosed = TRUE
    /\ ret = Result("New", Nil, Nil, "ok", 1)
    /\ puts = ParRecords
    /\ finalizeRuns = 1
    /\ finalizeErr = "ok"
    /\ hstate = hashReset(hasher)
    /\ th = [t \in 1..NumThreads |-> Idle]

quiet == << hasher, sinkKind, writerVars, sinkVars, readers, ret >>

\* a goroutine calls db.Get(key)
GetBegin(t) ==
    /\ th[t].pc = "idle"
    /\ th[t].n < MaxLookups
    /\ \E key \in Keys :
           th' = [th EXCEPT ![t] = [Idle EXCEPT !.pc = "Reset", !.key = key,
                                                !.n = th[t].n + 1]]
    /\ UNCHANGED << quiet, hstate >>

\* Get, line 71: cdb.hasher.Reset()
HasherReset(t) ==
    /\ th[t].pc = "Reset"
    /\ hstate' = hashReset(readers[1].hasher)
    /\ th' = [th EXCEPT ![t].pc = "Write"]
    /\ UNCHANGED quiet

\* Get, line 72, first half of cdbHash.Write: v := h.uint64
HasherLoad(t) ==
    /\ th[t].pc = "Write"
    /\ th' = [th EXCEPT ![t].pc = "Store", ![t].v = hstate]
    /\ UNCHANGED << quiet, hstate >>

\* Get, line 72, second half of cdbHash.Write: the loop over the bytes of the
\* key, then h.uint64 = v
HasherStore(t) ==
    /\ th[t].pc = "Store"
    /\ hstate' = hashWrite(readers[1].hasher, th[t].v, th[t].key)
    /\ th' = [th EXCEPT ![t].pc = "Sum64"]
    /\ UNCHANGED quiet

\* Get, lines 73-82: hash := cdb.hasher.Sum64(), the table and the starting slot
HasherSum64(t) ==
    /\ th[t].pc = "Sum64"
    /\ LET hash == hstate
           table == readers[1].header[LowByte(hash)]
       IN  IF table.length = Zero64
           THEN th' = [th EXCEPT ![t].pc = "done", ![t].hash = hash,
                                 ![t].value = Nil, ![t].err = "ok"]
           ELSE LET startingSlot == Shr8Mod(hash, ToInt(table.length))
                IN  th' = [th EXCEPT ![t].pc = "probe", ![t].hash = hash,
                                     ![t].slot = startingSlot,
                                     ![t].startingSlot = startingSlot]
    /\ UNCHANGED << quiet, hstate >>

\* Get, lines 84-107: one iteration of the probe loop
Probe(t) ==
    /\ th[t].pc = "probe"
    /\ LET rd == readers[1]
           p == probeSlot(file, sourceClosed(rd), rd.header[LowByte(th[t].hash)],
                          th[t].hash, th[t].key, th[t].slot, th[t].startingSlot)
       IN  IF p.done
           THEN th' = [th EXCEPT ![t].pc = "done", ![t].value = p.value,
                                 ![t].err = p.err, ![t].reads = @ + 1]
           ELSE th' = [th EXCEPT ![t].slot = p.next, ![t].reads = @ + 1]
    /\ UNCHANGED << quiet, hstate >>

\* Get returns; the goroutine is free for its next lookup
GetReturn(t) ==
    /\ th[t].pc = "done"
    /\ th' = [th EXCEPT ![t] = [Idle EXCEPT !.n = th[t].n]]
    /\ UNCHANGED << quiet, hstate >>

NextPar ==
    \E t \in 1..NumThreads :
        \/ GetBegin(t)
        \/ HasherReset(t)
        \/ HasherLoad(t)
        \/ HasherStore(t)
        \/ HasherSum64(t)
        \/ Probe(t)
        \/ GetReturn(t)

SpecPar == InitPar /\ [][NextPar]_vars

\* ------------------------------------------------------------------------
\* Get on a file that no Writer made
\* ------------------------------------------------------------------------

\* the file holds two records, one after the other from the end of the header
ProbeRecords == << << <<1, 255>>, <<7>> >>, << <<255, 1>>, <<8>> >> >>

\* the offset of the first record, of the second, and the end of the records
probeOffset(n) ==
    IF n = 1 THEN headerSize
    ELSE IF n = 2 THEN headerSize + Len(recordBytes(ProbeRecords[1][1], ProbeRecords[1][2]))
    ELSE headerSize + Len(recordBytes(ProbeRecords[1][1], ProbeRecords[1][2]))
                    + Len(recordBytes(ProbeRecords[2][1], ProbeRecords[2][2]))

\* what a slot of the file holds: nothing; the hash of the first record's key
\* with its offset; that hash with the offset of the second record (a slot
\* whose hash matches and whose key differs); the hash of the empty key with
\* the offset of a record
ProbeSlots(kind) ==
    { ZeroEntry,
      [hash |-> Hash(kind, ProbeRecords[1][1]), offset |-> U64(probeOffset(1))],
      [hash |-> Hash(kind, ProbeRecords[1][1]), offset |-> U64(probeOffset(2))],
      [hash |-> Hash(kind, <<>>), offset |-> U64(probeOffset(1))] }

\* the file whose 256 descriptors all describe the one slot array sorted of
\* tableSize slots, stored after the records
probeFile(sorted, tableSize) ==
    headerBytes([i \in 0..255 |-> [offset |-> U64(probeOffset(3)),
                                   length |-> U64(tableSize)]])
        \o recordBytes(ProbeRecords[1][1], ProbeRecords[1][2])
        \o recordBytes(ProbeRecords[2][1], ProbeRecords[2][2])
        \o slotBytes(sorted, 0, tableSize)

\* a Reader that New has opened on such a file, with any content of the
\* slot array, full ones too; no Get has started
InitProbe ==
    /\ hasher \in HashKinds
    /\ sinkKind = "file"
    /\ entries = newWriter.entries
    /\ bufferedWriter = Nil
    /\ bufferedOffset = headerSize
    /\ estimatedFooterSize = 0
    /\ finalizeOnce = TRUE
    /\ \E tableSize \in 1..MaxSlots :
           \E sorted \in [0..(tableSize - 1) -> ProbeSlots(hasher)] :
               /\ file = probeFile(sorted, tableSize)
               /\ readers = << [src |-> "own", header |-> readHeader(file, FALSE).header,
                                hasher |-> hasher, closer |-> TRUE,
                                closed |-> FALSE] >>
    /\ pos = headerSize
    /\ sinkClosed = TRUE
    /\ ret = Result("New", Nil, Nil, "ok", 1)
    /\ puts = <<>>
    /\ finalizeRuns = 0
    /\ finalizeErr = "none"
    /\ hstate = hashReset(hasher)
    /\ th = [t \in 1..NumThreads |-> Idle]

\* one goroutine calls Get
NextProbe ==
    \/ GetBegin(1)
    \/ HasherReset(1)
    \/ HasherLoad(1)
    \/ HasherStore(1)
    \/ HasherSum64(1)
    \/ Probe(1)
    \/ GetReturn(1)

SpecProbe == InitProbe /\ [][NextProbe]_vars

\* ------------------------------------------------------------------------
\* Readers opened by New on a finalized file
\* ------------------------------------------------------------------------

\* the records of the files New is called on: none, or the first records of
\* ParRecords
ReaderFiles == { SubSeq(ParRecords, 1, n) : n \in 0..Len(ParRecords) }

\* a Writer that was given the records of one of ReaderFiles and closed
\* without a failure; no Reader yet
InitReader ==
    /\ hasher \in HashKinds
    /\ sinkKind = "file"
    /\ \E recs \in ReaderFiles :
           LET w == putAll(newWriter, hasher, recs)
               d == finalizeWrites(w.entries, w.bufferedOffset, w.bufferedWriter,
                                   newSink, headerSize)
           IN  /\ entries = w.entries
               /\ bufferedOffset = d.bufferedOffset
               /\ estimatedFooterSize = w.estimatedFooterSize
               /\ file = d.done
               /\ puts = recs
    /\ bufferedWriter = Nil
    /\ finalizeOnce = TRUE
    /\ pos = headerSize
    /\ sinkClosed = TRUE
    /\ readers = <<>>
    /\ ret = Result("Close", Nil, Nil, "ok", 0)
    /\ finalizeRuns = 1
    /\ finalizeErr = "ok"
    /\ hstate = Zero64
    /\ th = [t \in 1..NumThreads |-> Idle]

NextReader == New \/ GetCall \/ ReaderClose

SpecReader == InitReader /\ [][NextReader]_vars

\* ------------------------------------------------------------------------
\* what the claims speak of
\* ------------------------------------------------------------------------

\* the keys that were Put
putKeys == { puts[i][1] : i \in 1..Len(puts) }

\* the positions of the Puts of key
putsOf(key) == { i \in 1..Len(puts) : puts[i][1] = key }

\* the position of the first Put of key
firstPut(key) == CHOOSE i \in putsOf(key) : \A j \in putsOf(key) : i <= j

\* the Reader of the last call
lastReader == readers[ret.rd]

\* the 256 descriptors stored at bytes [0, 4096) of the file
storedHeader == readHeader(file, FALSE).header

\* the last call was a Get on a Reader of the finalized file: finalize has
\* succeeded, the Reader holds the header stored in the file and its byte
\* source is open
GetOnFinalized ==
    /\ ret.op = "Get"
    /\ finalizeErr = "ok"
    /\ ~sourceClosed(lastReader)
    /\ lastReader.header = storedHeader

\* C1: round trip.  After Puts with pairwise distinct keys and a successful
\* finalize, Get of a key that was Put returns the value of its Put.
C1_RoundTrip ==
    (GetOnFinalized /\ ret.key \in putKeys
        /\ \A k \in putKeys : Cardinality(putsOf(k)) = 1)
    => (ret.err = "ok" /\ ret.value = puts[firstPut(ret.key)][2])

\* C2: concurrent lookups.  Every Get that returns while other goroutines are
\* inside Get on the same Reader returns what the call returns when it runs
\* alone.
C2_ConcurrentGet ==
    \A t \in 1..NumThreads :
        th[t].pc = "done"
        => LET g == GetSeq(file, sourceClosed(readers[1]), readers[1].header,
                           readers[1].hasher, th[t].key)
           IN  th[t].value = g.value /\ th[t].err = g.err

\* C3: a key whose hash is 0.  After Put(k, v) with hash(k) = 0, k Put once,
\* and a successful finalize, Get(k) returns v.
C3_ZeroHash ==
    (GetOnFinalized /\ Hash(hasher, ret.key) = Zero64
        /\ Cardinality(putsOf(ret.key)) = 1)
    => (ret.err = "ok" /\ ret.value = puts[firstPut(ret.key)][2])

\* C4: absence.  On a finalized file, Get of a key that was never Put returns
\* not found: a nil value and no error.
C4_Absence ==
    (ret.op = "Get" /\ finalizeErr = "ok" /\ ~sourceClosed(lastReader)
        /\ ret.key \notin putKeys)
    => (ret.value = Nil /\ ret.err = "ok")

\* C4 witness: a Get of a key never Put, on a Reader of the finalized file,
\* while a key with the same hash was Put, has returned not found
C4_Witness ==
    /\ GetOnFinalized
    /\ ret.key \notin putKeys
    /\ \E k \in putKeys : Hash(hasher, k) = Hash(hasher, ret.key)
    /\ ret.value = Nil

\* C5: duplicate keys.  When a key was Put several times, Get of it after a
\* successful finalize returns the value of its first Put.
C5_FirstDuplicate ==
    (GetOnFinalized /\ Cardinality(putsOf(ret.key)) > 1)
    => (ret.err = "ok" /\ ret.value = puts[firstPut(ret.key)][2])

\* C6: finalize runs at most once.  In every step the body of finalize has
\* started at most once, and once it has run no call starts it again or
\* changes a byte of the file.
C6_FinalizeOnce ==
    [][ /\ finalizeRuns' <= 1
        /\ finalizeRuns >= 1 => (finalizeRuns' = finalizeRuns /\ file' = file) ]_vars

\* C6 witness: Freeze has returned after an earlier Close on a Writer that
\* holds entries, and finalize has run once
C6_Witness ==
    /\ ret.op = "Freeze"
    /\ sinkClosed
    /\ Len(puts) > 0
    /\ finalizeRuns = 1

\* C7: every Freeze that returns a Reader returns one whose header is the
\* header stored in the file, and whose Get results are those of a Reader
\* that New builds on the file.
C7_FreezeHeader ==
    (ret.op = "Freeze" /\ ret.err = "ok")
    => /\ lastReader.header = storedHeader
       /\ \A k \in Keys :
              GetSeq(file, FALSE, lastReader.header, lastReader.hasher, k)
                  = GetSeq(file, FALSE, storedHeader, lastReader.hasher, k)

\* C8: empty values.  After Put(k, empty value), k Put with no other value,
\* and a successful finalize, Get(k) returns a value that is present and has
\* length 0.
C8_EmptyValue ==
    (GetOnFinalized /\ ret.key \in putKeys
        /\ \A i \in putsOf(ret.key) : puts[i][2] = <<>>)
    => (ret.err = "ok" /\ ret.value # Nil /\ ret.value = <<>>)

\* C9: Put with a nil key or a nil value returns an error and changes nothing
\* in the Writer or the sink; Put with a key and a value that are not nil,
\* empty ones too, is accepted and appends one entry.
C9_NilPut ==
    [][ ret'.op = "Put" =>
          IF ret'.key = Nil \/ ret'.value = Nil
          THEN /\ ret'.err # "ok"
               /\ UNCHANGED << entries, bufferedWriter, bufferedOffset,
                               estimatedFooterSize, file, pos >>
          ELSE /\ ret'.err = "ok"
               /\ entries' = putEntry(entries, hasher, ret'.key, bufferedOffset)
               /\ bufferedOffset' = bufferedOffset + 16 + Len(ret'.key) + Len(ret'.value)
               /\ file' = file ]_vars

\* C9 witness: Put with a nil argument has returned its error on a Writer that
\* had accepted the empty key with the empty value
C9_Witness ==
    /\ ret.op = "Put"
    /\ ret.err = "nil argument"
    /\ \E i \in 1..Len(puts) : puts[i] = << <<>>, <<>> >>

\* C10: whenever Writer.Close has returned, a sink that implements Closer has
\* been closed.
C10_CloseReleases ==
    (ret.op = "Close" /\ sinkKind = "file") => sinkClosed

\* C11: CDB.Close closes a source that is a Closer, and closing a source that
\* is closed already returns the invalid-handle error; on a source that is no
\* Closer it returns nil and changes nothing.
C11_ReaderClose ==
    [][ ret'.op = "ReaderClose" =>
          LET rd == readers[ret'.rd]
          IN  IF rd.closer
              THEN /\ IF rd.src = "sink" THEN sinkClosed'
                                         ELSE readers'[ret'.rd].closed
                   /\ ret'.err = IF sourceClosed(rd) THEN "EINVAL" ELSE "ok"
              ELSE /\ ret'.err = "ok"
                   /\ UNCHANGED << readers, sinkClosed, file >> ]_vars

\* C11 witness: a second Close of a Reader on a Closer has returned the
\* invalid-handle error
C11_Witness ==
    /\ ret.op = "ReaderClose"
    /\ readers[ret.rd].closer
    /\ ret.err = "EINVAL"

\* Close or Freeze has returned on a Writer whose finalize succeeded: the
\* states in which a finalized file is new or its handle has changed.  Get,
\* the one call that comes after, changes neither the file nor the Writer.
finalizedNow == finalizeErr = "ok" /\ ret.op \in { "Close", "Freeze" }

RECURSIVE putOffset(_)
\* the value of bufferedOffset when the i-th successful Put was called: the
\* offset at which its record starts
putOffset(i) ==
    IF i = 1 THEN headerSize
    ELSE putOffset(i - 1) + 16 + Len(puts[i - 1][1]) + Len(puts[i - 1][2])

\* the end of the record region
recordsEnd == putOffset(Len(puts) + 1)

\* slot j of the subtable described by table, as stored in the file
slotAt(table, j) == readTuple(file, FALSE, Add64(table.offset, 16 * j))

\* the slot holds neither hash nor offset
emptySlot(s) == s.first = Zero64 /\ s.second = Zero64

\* C12: slot validity.  In a finalized file every slot of subtable i that is
\* not empty holds the start offset of the record of some Put, the file holds
\* that Put's key and value there, the key hashes to the slot's hash under
\* the Writer's hash, and the low byte of the slot's hash is i.
C12_SlotValidity ==
    finalizedNow =>
        LET h == storedHeader
        IN  \A i \in 0..255 :
              h[i].length # Zero64 =>
                \A j \in 0..(ToInt(h[i].length) - 1) :
                    LET s == slotAt(h[i], j)
                    IN  /\ s.err = "ok"
                        /\ ~emptySlot(s) =>
                             /\ LowByte(s.first) = i
                             /\ \E p \in 1..Len(puts) :
                                    /\ s.second = U64(putOffset(p))
                                    /\ s.first = Hash(hasher, puts[p][1])
                                    /\ getValueAt(file, FALSE, s.second, puts[p][1])
                                           = [value |-> puts[p][2], err |-> "ok"]

\* C12 witness: a finalized file whose subtable 0 holds, in two slots, two
\* entries of one hash
C12_Witness ==
    /\ finalizedNow
    /\ LET t == storedHeader[0]
       IN  /\ t.length = U64(4)
           /\ \E j, k \in 0..3 :
                  /\ j # k
                  /\ ~emptySlot(slotAt(t, j))
                  /\ slotAt(t, j).first = slotAt(t, k).first
                  /\ slotAt(t, j).second # slotAt(t, k).second

\* the slots of the subtable described by table that hold entry e
slotsOf(table, e) ==
    { j \in 0..(ToInt(table.length) - 1) :
        LET s == slotAt(table, j)
        IN  s.first = e.hash /\ s.second = e.offset }

\* C13: no entry is lost in finalize.  In a finalized file, for every subtable
\* with N accumulated entries, each entry is in exactly one slot of the
\* subtable and N slots are (0, 0).
C13_NoEntryLost ==
    finalizeErr = "ok" =>
        LET h == storedHeader
        IN  \A i \in 0..255 :
                entries[i] # <<>> =>
                    /\ \A n \in 1..Len(entries[i]) :
                           Cardinality(slotsOf(h[i], entries[i][n])) = 1
                    /\ Cardinality({ j \in 0..(ToInt(h[i].length) - 1) :
                                       emptySlot(slotAt(h[i], j)) })
                           = Len(entries[i])

\* the subtable of the p-th successful Put: the low byte of its key's hash
\* under the Writer's hash
tableOfPut == [p \in 1..Len(puts) |-> LowByte(Hash(hasher, puts[p][1]))]

\* C14: load factor.  In a finalized file the length of the descriptor of
\* each subtable i is twice the number of Puts whose key's hash has low byte i.
C14_LoadFactor ==
    finalizedNow =>
        LET h == storedHeader
            t == tableOfPut
            used == { t[p] : p \in 1..Len(puts) }
        IN  \A i \in 0..255 :
                IF i \in used
                THEN h[i].length
                         = U64(2 * Cardinality({ p \in 1..Len(puts) : t[p] = i }))
                ELSE h[i].length = Zero64

\* C14 witness: a finalized file with a subtable of two Puts and four slots
C14_Witness ==
    /\ finalizedNow
    /\ \E i \in 0..255 :
           /\ Cardinality({ p \in 1..Len(puts) : tableOfPut[p] = i }) = 2
           /\ storedHeader[i].length = U64(4)

\* C15: header placement and layout.  In a finalized file the first
\* descriptor's offset is 4096 plus the sizes of the records of all Puts, each
\* next descriptor's offset is the one before plus 16 bytes for each of its
\* slots, the slots stored in the range of subtable i are empty or entries of
\* entries[i], and the file ends where the last subtable ends; with no Put the
\* file has exactly 4096 bytes and Get on every Reader returns not found.
C15_HeaderLayout ==
    finalizedNow =>
        LET h == storedHeader
        IN  /\ h[0].offset = U64(recordsEnd)
            /\ \A i \in 0..254 :
                   h[i + 1].offset = Add64(h[i].offset, 16 * ToInt(h[i].length))
            /\ \A i \in 0..255 :
                 h[i].length # Zero64 =>
                   \A j \in 0..(ToInt(h[i].length) - 1) :
                       LET s == slotAt(h[i], j)
                       IN  /\ s.err = "ok"
                           /\ \/ emptySlot(s)
                              \/ \E n \in 1..Len(entries[i]) :
                                     entries[i][n] = [hash |-> s.first,
                                                      offset |-> s.second]
            /\ Len(file) = ToInt(h[255].offset) + 16 * ToInt(h[255].length)
            /\ puts = <<>> =>
                   /\ Len(file) = headerSize
                   /\ \A r \in 1..Len(readers), k \in Keys :
                          LET g == GetSeq(file, sourceClosed(readers[r]),
                                          readers[r].header, readers[r].hasher, k)
                          IN  g.value = Nil /\ g.err = "ok"

\* C15 witness: a finalized file of two Puts whose keys fell into two
\* subtables
C15_Witness ==
    /\ finalizedNow
    /\ Len(puts) = 2
    /\ tableOfPut[1] # tableOfPut[2]
    /\ Len(file) > recordsEnd

\* the record offsets stored in the slots that are not empty lie in
\* [4096, end of the records)
recordOffsetsInRange(h) ==
    LET end == recordsEnd
    IN  \A i \in 0..255 :
            h[i].length # Zero64 =>
                \A j \in 0..(ToInt(h[i].length) - 1) :
                    LET s == slotAt(h[i], j)
                    IN  ~emptySlot(s) =>
                            /\ Small(s.second)
                            /\ headerSize <= ToInt(s.second)
                            /\ ToInt(s.second) < end

C17_LookupTerminates ==
    \A t \in 1..NumThreads :
        LET length == ToInt(readers[1].header[LowByte(th[t].hash)].length)
        IN  /\ th[t].pc = "probe" => th[t].reads < length
            /\ th[t].pc = "done" => th[t].reads <= length

\* C17 witness: a Get has returned not found after it read every slot of a
\* subtable that has no empty slot and holds slots of the key's hash
C17_Witness ==
    /\ th[1].pc = "done"
    /\ th[1].value = Nil
    /\ th[1].err = "ok"
    /\ th[1].reads = 2
    /\ LET table == readers[1].header[LowByte(th[1].hash)]
       IN  /\ table.length = U64(2)
           /\ \A j \in 0..1 : slotAt(table, j).first = th[1].hash

\* C18: a hash mismatch is harmless.  A Get on a Reader that was given another
\* hash than the Writer's, its source open, returns no error and either not
\* found or a value that was Put under the very key asked for.
C18_HashMismatch ==
    (ret.op = "Get" /\ lastReader.hasher # hasher /\ ~sourceClosed(lastReader))
    => /\ ret.err = "ok"
       /\ \/ ret.value = Nil
          \/ \E p \in 1..Len(puts) : puts[p] = << ret.key, ret.value >>

\* C18 witness: a Get of a key that was Put has returned not found on a
\* Reader whose hash gives the key the hash that the Writer's hash gave to
\* another key of the file
C18_Witness ==
    /\ ret.op = "Get"
    /\ lastReader.hasher # hasher
    /\ ~sourceClosed(lastReader)
    /\ ret.key \in putKeys
    /\ \E k \in putKeys :
           k # ret.key /\ Hash(lastReader.hasher, ret.key) = Hash(hasher, k)
    /\ ret.value = Nil
    /\ ret.err = "ok"

\* C19: a finalize failure is never masked.  Once finalize has returned an
\* error, every Close that returns returns an error, and every Freeze that
\* returns returns an error and no Reader.
C19_FailureNotMasked ==
    (finalizeErr = "io" /\ ret.op \in { "Close", "Freeze" })
    => (ret.err # "ok" /\ ret.rd = 0)

\* C20: a Reader handed out by Freeze keeps working.  A Close or Freeze on the
\* Writer after Freeze has returned a Reader neither closes nor alters the
\* byte source of that Reader, and Get of every key on it returns what it
\* returned before.
C20_ReaderSurvives ==
    [][ ret'.op \in { "Close", "Freeze" } =>
          \A i \in 1..Len(readers) :
              readers[i].src = "sink" =>
                  /\ sinkClosed' = sinkClosed
                  /\ file' = file
                  /\ \A k \in Keys :
                         GetSeq(file', sinkClosed', readers[i].header,
                                readers[i].hasher, k)
                             = GetSeq(file, sinkClosed, readers[i].header,
                                      readers[i].hasher, k) ]_vars

====
